---- MODULE Spec2Model ----
(***************************************************************************)
(* Model of AB_testing/AB_test_functions.py: the two comparators           *)
(* AB_Test_Numerical and AB_Test_Categorical, one action per statement     *)
(* group.  p-values and alpha live on a grid 0..PMax (p = k/PMax); the     *)
(* statistical primitives are external and return any p-value or raise.    *)
(***************************************************************************)
EXTENDS Integers, Sequences, FiniteSets

\* ---- bounds ----
PMax == 3
MaxLen == 2

PVals == 0..PMax
Alphas == 1..(PMax - 1)
Labels == {"click", "no_click"}
Samples == UNION {[1..n -> Labels] : n \in 0..MaxLen}

\* an unbound local / not yet computed value
None == -1
NoTable == <<>>
NoError == <<>>

\* attributes the module bound to the name stats provides that the code uses
ScipyStatsAttrs == {"levene", "ttest_ind", "mannwhitneyu", "chi2_contingency"}

VARIABLES pc, fn, alpha, calls, out, error,
          p_shapiro_A, p_shapiro_B, p_levene, p_ttest,
          df_control, df_treatment, condition, ztest_proportions, chisquare_test,
          nobs_groupA, nobs_groupB, successes_groupA, successes_groupB,
          rxc_table, p_prop_ztest, p_chi2

numVars == <<p_shapiro_A, p_shapiro_B, p_levene, p_ttest>>
catInputs == <<df_control, df_treatment, condition, ztest_proportions, chisquare_test>>
catCounts == <<nobs_groupA, nobs_groupB, successes_groupA, successes_groupB>>
catVars == <<catInputs, catCounts, rxc_table, p_prop_ztest, p_chi2>>
vars == <<pc, fn, alpha, calls, out, error, numVars, catVars>>

\* ---- pure helpers ----

\* len(df[df[target]==condition])
RECURSIVE CountEq(_, _)
CountEq(s, c) ==
    IF s = <<>> THEN 0
    ELSE (IF Head(s) = c THEN 1 ELSE 0) + CountEq(Tail(s), c)

\* line 39: (p_shapiro_A>alpha) & (p_shapiro_B>alpha)
BothNormalLoose(pA, pB, a) == (pA >= a) /\ (pB >= a)
BothNormal(pA, pB, a) == (pA > a) /\ (pB > a)

\* line 49: p_levene > alpha
EqualVariance(p, a) == p > a

\* line 75: p_ttest < alpha
RejectsLoose(p, a) == p <= a
Rejects(p, a) == p < a

\* lines 122, 135: p > alpha selects the "cannot be rejected" message
CategoricalKeeps(p, a) == p > a

\* lines 132-133
RxcTableNoSubtract(sA, nA, sB, nB) == <<<<sA, nA - sA>>, <<sB, nB>>>>
RxcTable(sA, nA, sB, nB) == <<<<sA, nA - sA>>, <<sB, nB - sB>>>>

\* an exception leaves the function: nothing after the raising statement runs
Raise(e) ==
    /\ error' = e
    /\ pc' = "aborted"

Init ==
    /\ pc = "idle"
    /\ fn = "none"
    /\ alpha = None
    /\ calls = <<>>
    /\ out = <<>>
    /\ error = NoError
    /\ p_shapiro_A = None /\ p_shapiro_B = None /\ p_levene = None /\ p_ttest = None
    /\ df_control = <<>> /\ df_treatment = <<>> /\ condition = "click"
    /\ ztest_proportions = FALSE /\ chisquare_test = FALSE
    /\ nobs_groupA = None /\ nobs_groupB = None
    /\ successes_groupA = None /\ successes_groupB = None
    /\ rxc_table = NoTable
    /\ p_prop_ztest = None /\ p_chi2 = None

\* ---- AB_Test_Numerical ----

\* lines 2-33: entry, header print
CallNumerical ==
    /\ pc = "idle"
    /\ \E a \in Alphas : alpha' = a
    /\ fn' = "AB_Test_Numerical"
    /\ out' = Append(out, <<"header", "Normality">>)
    /\ pc' = "n34"
    /\ UNCHANGED <<calls, error, numVars, catVars>>

\* line 34
ShapiroA ==
    /\ pc = "n34"
    /\ calls' = Append(calls, "shapiro")
    /\ \/ \E p \in PVals :
            /\ p_shapiro_A' = p
            /\ pc' = "n35"
            /\ UNCHANGED error
       \/ /\ Raise(<<"PrimitiveError", "shapiro">>)
          /\ UNCHANGED p_shapiro_A
    /\ UNCHANGED <<fn, alpha, out, p_shapiro_B, p_levene, p_ttest, catVars>>

\* line 35
ShapiroB ==
    /\ pc = "n35"
    /\ calls' = Append(calls, "shapiro")
    /\ \/ \E p \in PVals :
            /\ p_shapiro_B' = p
            /\ pc' = "n39"
            /\ UNCHANGED error
       \/ /\ Raise(<<"PrimitiveError", "shapiro">>)
          /\ UNCHANGED p_shapiro_B
    /\ UNCHANGED <<fn, alpha, out, p_shapiro_A, p_levene, p_ttest, catVars>>

\* lines 39-43 and 67-70
NormalityBranch ==
    /\ pc = "n39"
    /\ IF BothNormal(p_shapiro_A, p_shapiro_B, alpha)
       THEN /\ out' = out \o << <<"shapiro", ">", "H0 cannot be rejected", "likely normal">>,
                               <<"header", "Homogeneity">> >>
            /\ pc' = "n45"
       ELSE /\ out' = out \o << <<"shapiro", "<", "H0 is rejected", "not likely normal">>,
                               <<"header", "Mann-Whitney U">> >>
            /\ pc' = "n71"
    /\ UNCHANGED <<fn, alpha, calls, error, numVars, catVars>>

\* line 45
Levene ==
    /\ pc = "n45"
    /\ calls' = Append(calls, "levene")
    /\ \/ \E p \in PVals :
            /\ p_levene' = p
            /\ pc' = "n49"
            /\ UNCHANGED error
       \/ /\ Raise(<<"PrimitiveError", "levene">>)
          /\ UNCHANGED p_levene
    /\ UNCHANGED <<fn, alpha, out, p_shapiro_A, p_shapiro_B, p_ttest, catVars>>

\* lines 49-54 and 58-63
HomogeneityBranch ==
    /\ pc = "n49"
    /\ IF EqualVariance(p_levene, alpha)
       THEN /\ out' = out \o << <<"levene", ">", "H0 cannot be rejected", "variances are equal">>,
                               <<"header", "t-test & equal variances">> >>
            /\ pc' = "n55"
       ELSE /\ out' = out \o << <<"levene", "<", "H0 is rejected", "variances are equal">>,
                               <<"header", "t-test & unequal variances">> >>
            /\ pc' = "n64"
    /\ UNCHANGED <<fn, alpha, calls, error, numVars, catVars>>

\* the call stats.p_ttest_ind(groupA, groupB, equal_var=...)[1]: the attribute
\* is looked up on the module first, then the primitive is called
PTtestInd(name) ==
    IF "p_ttest_ind" \notin ScipyStatsAttrs
    THEN /\ Raise(<<"AttributeError", "p_ttest_ind">>)
         /\ UNCHANGED <<calls, p_ttest>>
    ELSE /\ calls' = Append(calls, name)
         /\ \/ \E p \in PVals :
                 /\ p_ttest' = p
                 /\ pc' = "n75"
                 /\ UNCHANGED error
            \/ /\ Raise(<<"PrimitiveError", name>>)
               /\ UNCHANGED p_ttest

\* line 55
TtestEqualVar ==
    /\ pc = "n55"
    /\ PTtestInd("ttest_ind equal_var=True")
    /\ UNCHANGED <<fn, alpha, out, p_shapiro_A, p_shapiro_B, p_levene, catVars>>

\* line 64
TtestUnequalVar ==
    /\ pc = "n64"
    /\ PTtestInd("ttest_ind equal_var=False")
    /\ UNCHANGED <<fn, alpha, out, p_shapiro_A, p_shapiro_B, p_levene, catVars>>

\* line 71
MannWhitneyU ==
    /\ pc = "n71"
    /\ calls' = Append(calls, "mannwhitneyu")
    /\ \/ \E p \in PVals :
            /\ p_ttest' = p
            /\ pc' = "n75"
            /\ UNCHANGED error
       \/ /\ Raise(<<"PrimitiveError", "mannwhitneyu">>)
          /\ UNCHANGED p_ttest
    /\ UNCHANGED <<fn, alpha, out, p_shapiro_A, p_shapiro_B, p_levene, catVars>>

\* lines 75-78
FinalVerdict ==
    /\ pc = "n75"
    /\ out' = Append(out,
                IF Rejects(p_ttest, alpha)
                THEN <<"hypothesis", "<", "H0 is rejected", "means are not similar">>
                ELSE <<"hypothesis", ">", "H0 cannot be rejected", "means are not likely unsimilar">>)
    /\ pc' = "done"
    /\ UNCHANGED <<fn, alpha, calls, error, numVars, catVars>>

\* ---- AB_Test_Categorical ----

\* lines 81-112: entry, observation and success counts
CallCategorical ==
    /\ pc = "idle"
    /\ \E a \in Alphas, c \in Samples, t \in Samples, cond \in Labels,
          z \in BOOLEAN, q \in BOOLEAN :
            /\ alpha' = a
            /\ df_control' = c
            /\ df_treatment' = t
            /\ condition' = cond
            /\ ztest_proportions' = z
            /\ chisquare_test' = q
            /\ nobs_groupA' = Len(c)
            /\ nobs_groupB' = Len(t)
            /\ successes_groupA' = CountEq(c, cond)
            /\ successes_groupB' = CountEq(t, cond)
    /\ fn' = "AB_Test_Categorical"
    /\ pc' = "c114"
    /\ UNCHANGED <<calls, out, error, numVars, rxc_table, p_prop_ztest, p_chi2>>

\* lines 114-120
ZtestBranch ==
    /\ pc = "c114"
    /\ IF ztest_proportions
       THEN /\ out' = Append(out, <<"header", "two-sample Z Test for proportions">>)
            /\ pc' = "c121"
       ELSE /\ pc' = "c127"
            /\ UNCHANGED out
    /\ UNCHANGED <<fn, alpha, calls, error, numVars, catVars>>

\* line 121 with the exception caught and the function carrying on
ProportionsZtestSwallow ==
    /\ pc = "c121"
    /\ calls' = Append(calls, "proportions_ztest")
    /\ \/ \E p \in PVals :
            /\ p_prop_ztest' = p
            /\ pc' = "c122"
            /\ UNCHANGED error
       \/ /\ error' = <<"PrimitiveError", "proportions_ztest">>
          /\ pc' = "c127"
          /\ UNCHANGED p_prop_ztest
    /\ UNCHANGED <<fn, alpha, out, numVars, catInputs, catCounts, rxc_table, p_chi2>>

\* line 121
ProportionsZtest ==
    /\ pc = "c121"
    /\ calls' = Append(calls, "proportions_ztest")
    /\ \/ \E p \in PVals :
            /\ p_prop_ztest' = p
            /\ pc' = "c122"
            /\ UNCHANGED error
       \/ /\ Raise(<<"PrimitiveError", "proportions_ztest">>)
          /\ UNCHANGED p_prop_ztest
    /\ UNCHANGED <<fn, alpha, out, numVars, catInputs, catCounts, rxc_table, p_chi2>>

\* lines 122-125
ZtestVerdict ==
    /\ pc = "c122"
    /\ out' = Append(out,
                IF CategoricalKeeps(p_prop_ztest, alpha)
                THEN <<"prop_ztest", ">", "H0 cannot be rejected", "proportions might be the same">>
                ELSE <<"prop_ztest", "<", "H0 is rejected", "proportions might be different">>)
    /\ pc' = "c127"
    /\ UNCHANGED <<fn, alpha, calls, error, numVars, catVars>>

\* lines 127-133
ChiSquareBranch ==
    /\ pc = "c127"
    /\ IF chisquare_test
       THEN /\ out' = Append(out, <<"header", "Chi-square Test">>)
            /\ rxc_table' = RxcTable(successes_groupA, nobs_groupA,
                                     successes_groupB, nobs_groupB)
            /\ pc' = "c134"
       ELSE /\ pc' = "done"
            /\ UNCHANGED <<out, rxc_table>>
    /\ UNCHANGED <<fn, alpha, calls, error, numVars, catInputs, catCounts,
                   p_prop_ztest, p_chi2>>

\* line 134
Chi2Contingency ==
    /\ pc = "c134"
    /\ calls' = Append(calls, "chi2_contingency")
    /\ \/ \E p \in PVals :
            /\ p_chi2' = p
            /\ pc' = "c135"
            /\ UNCHANGED error
       \/ /\ Raise(<<"PrimitiveError", "chi2_contingency">>)
          /\ UNCHANGED p_chi2
    /\ UNCHANGED <<fn, alpha, out, numVars, catInputs, catCounts, rxc_table, p_prop_ztest>>

\* lines 135-138 deciding from the z-test's p-value
ChiSquareVerdictFromZtest ==
    /\ pc = "c135"
    /\ out' = Append(out,
                IF CategoricalKeeps(p_prop_ztest, alpha)
                THEN <<"chi2", ">", "H0 cannot be rejected", "proportions might be the same">>
                ELSE <<"chi2", "<", "H0 is rejected", "proportions might be different">>)
    /\ pc' = "done"
    /\ UNCHANGED <<fn, alpha, calls, error, numVars, catVars>>

\* lines 135-138
ChiSquareVerdict ==
    /\ pc = "c135"
    /\ out' = Append(out,
                IF CategoricalKeeps(p_chi2, alpha)
                THEN <<"chi2", ">", "H0 cannot be rejected", "proportions might be the same">>
                ELSE <<"chi2", "<", "H0 is rejected", "proportions might be different">>)
    /\ pc' = "done"
    /\ UNCHANGED <<fn, alpha, calls, error, numVars, catVars>>

\* ---- vocabulary of the properties ----

Range(s) == {s[i] : i \in DOMAIN s}
Last(s) == s[Len(s)]
IsVerdict(e) == e[1] \in {"hypothesis", "prop_ztest", "chi2"}
Verdicts == SelectSeq(out, IsVerdict)
Terminated == pc \in {"done", "aborted"}
PrimitiveFailed == error # NoError /\ error[1] = "PrimitiveError"
InNumerical == fn = "AB_Test_Numerical"
InCategorical == fn = "AB_Test_Categorical"
NormalityKnown == p_shapiro_A # None /\ p_shapiro_B # None
TtestCalls == {"ttest_ind equal_var=True", "ttest_ind equal_var=False"}
SuccessesOf(df) == Cardinality({i \in DOMAIN df : df[i] = condition})
FailuresOf(df) == Cardinality({i \in DOMAIN df : df[i] # condition})
Flag(b) == IF b THEN 1 ELSE 0

\* C1: when both normality p-values are strictly above alpha and no primitive
\* fails, a finished call of AB_Test_Numerical has run a t-test as its last
\* test and has never run Mann-Whitney U.
C1_ParametricRunsMeanTest ==
    (/\ InNumerical /\ Terminated /\ NormalityKnown /\ ~PrimitiveFailed
     /\ p_shapiro_A > alpha /\ p_shapiro_B > alpha)
    => /\ calls # <<>>
       /\ Last(calls) \in TtestCalls
       /\ "mannwhitneyu" \notin Range(calls)

\* C2: when at least one normality p-value is not strictly above alpha
\* (equality included), neither Levene nor a t-test is ever run, and a
\* finished call has run exactly the two normality tests and Mann-Whitney U.
C2_NonNormalRunsRankTest ==
    (/\ InNumerical /\ NormalityKnown
     /\ (p_shapiro_A <= alpha \/ p_shapiro_B <= alpha))
    => /\ "levene" \notin Range(calls)
       /\ Range(calls) \cap TtestCalls = {}
       /\ p_levene = None
       /\ pc \in {"n39", "n71", "n75", "done", "aborted"}
       /\ pc \in {"n75", "done", "aborted"}
            => calls = <<"shapiro", "shapiro", "mannwhitneyu">>
       /\ pc = "aborted" => error = <<"PrimitiveError", "mannwhitneyu">>

C2_Witness ==
    /\ InNumerical /\ pc = "done"
    /\ p_shapiro_A = alpha /\ p_shapiro_B > alpha
    /\ Last(calls) = "mannwhitneyu"

\* C3: a call of AB_Test_Numerical that completes reports exactly one final
\* verdict, and it is "H0 is rejected" iff the chosen test's p-value is
\* strictly below alpha; a p-value equal to alpha gives "H0 cannot be
\* rejected".  No verdict is reported before completion.
C3_NumericalVerdictStrict ==
    InNumerical =>
      /\ pc # "done" => Verdicts = <<>>
      /\ pc = "done" =>
           /\ Len(Verdicts) = 1
           /\ Verdicts[1][1] = "hypothesis"
           /\ Verdicts[1][3] \in {"H0 is rejected", "H0 cannot be rejected"}
           /\ Verdicts[1][3] = "H0 is rejected" <=> p_ttest < alpha
           /\ p_ttest = alpha => Verdicts[1][3] = "H0 cannot be rejected"

C3_Witness ==
    /\ InNumerical /\ pc = "done"
    /\ p_ttest = alpha
    /\ Verdicts = << <<"hypothesis", ">", "H0 cannot be rejected",
                       "means are not likely unsimilar">> >>

\* C4: in AB_Test_Categorical every reported verdict is "H0 is rejected" iff
\* the p-value of its own test is strictly below alpha.
C4_CategoricalVerdictStrict ==
    InCategorical =>
      \A i \in DOMAIN out :
        /\ out[i][1] = "prop_ztest" =>
             (out[i][3] = "H0 is rejected" <=> p_prop_ztest < alpha)
        /\ out[i][1] = "chi2" =>
             (out[i][3] = "H0 is rejected" <=> p_chi2 < alpha)

\* C5: a call of AB_Test_Numerical in which no primitive fails ends by
\* completing with exactly one final verdict; it never aborts otherwise.
C5_NumericalCompletes ==
    (InNumerical /\ Terminated /\ ~PrimitiveFailed)
    => /\ pc = "done"
       /\ error = NoError
       /\ Len(Verdicts) = 1

\* C6: a completed call of AB_Test_Categorical has reported as many verdicts
\* as flags are set, the z-test's first and the chi-square's last, each
\* following its own p-value; with both flags false nothing is run, printed
\* or raised.
C6_VerdictPerFlag ==
    (InCategorical /\ pc = "done") =>
      /\ error = NoError
      /\ Len(Verdicts) = Flag(ztest_proportions) + Flag(chisquare_test)
      /\ Len(calls) = Flag(ztest_proportions) + Flag(chisquare_test)
      /\ ztest_proportions =>
           /\ Verdicts[1][1] = "prop_ztest"
           /\ calls[1] = "proportions_ztest"
           /\ p_prop_ztest < alpha => Verdicts[1][3] = "H0 is rejected"
           /\ p_prop_ztest > alpha => Verdicts[1][3] = "H0 cannot be rejected"
      /\ chisquare_test =>
           /\ Last(Verdicts)[1] = "chi2"
           /\ Last(calls) = "chi2_contingency"
           /\ p_chi2 < alpha => Last(Verdicts)[3] = "H0 is rejected"
           /\ p_chi2 > alpha => Last(Verdicts)[3] = "H0 cannot be rejected"
      /\ (~ztest_proportions /\ ~chisquare_test) =>
           /\ calls = <<>>
           /\ out = <<>>

C6_Witness ==
    /\ InCategorical /\ pc = "done"
    /\ ztest_proportions /\ chisquare_test
    /\ Len(Verdicts) = 2
    /\ Verdicts[1][3] = "H0 is rejected"
    /\ Verdicts[2][3] = "H0 cannot be rejected"

\* C7: the 2x2 table handed to the chi-square test has rows summing to the
\* control and treatment observation counts, columns summing to the total
\* successes and total failures over both arms, and no negative cell.
C7_TableMargins ==
    rxc_table # NoTable =>
      /\ rxc_table[1][1] + rxc_table[1][2] = Len(df_control)
      /\ rxc_table[2][1] + rxc_table[2][2] = Len(df_treatment)
      /\ rxc_table[1][1] + rxc_table[2][1]
           = SuccessesOf(df_control) + SuccessesOf(df_treatment)
      /\ rxc_table[1][2] + rxc_table[2][2]
           = FailuresOf(df_control) + FailuresOf(df_treatment)
      /\ \A r \in 1..2, c \in 1..2 : rxc_table[r][c] >= 0

C7_Witness ==
    /\ pc = "c134"
    /\ Len(df_control) > 0 /\ Len(df_treatment) > 0
    /\ rxc_table[1][1] = 0
    /\ rxc_table[2][2] = 0
    /\ rxc_table[2][1] = Len(df_treatment)

\* C8: on the parametric path, when no primitive fails, a finished call has
\* run the t-test with equal_var=True iff the Levene p-value is strictly
\* above alpha, and with equal_var=False otherwise.
C8_EqualVarIffLevene ==
    (InNumerical /\ Terminated /\ p_levene # None /\ ~PrimitiveFailed) =>
      /\ "ttest_ind equal_var=True" \in Range(calls) <=> p_levene > alpha
      /\ "ttest_ind equal_var=False" \in Range(calls) <=> p_levene <= alpha

\* C9 as stated: once a primitive has failed the call is aborted, the failing
\* primitive is the last test run, and no verdict has been reported.
C9_NoVerdictBeforeFailure ==
    PrimitiveFailed =>
      /\ pc = "aborted"
      /\ Last(calls) = error[2]
      /\ Verdicts = <<>>

\* C9 amended: once a primitive has failed the call is aborted and the
\* failing primitive is the last test run; no verdict has been reported,
\* except that a chi-square failure with ztest_proportions set follows the
\* already reported z-test verdict, which is then the only verdict.
C9_AbortKeepsEarlierVerdict ==
    PrimitiveFailed =>
      /\ pc = "aborted"
      /\ Last(calls) = error[2]
      /\ IF InCategorical /\ error[2] = "chi2_contingency" /\ ztest_proportions
         THEN /\ Len(Verdicts) = 1
              /\ Verdicts[1][1] = "prop_ztest"
         ELSE Verdicts = <<>>

C9_Witness ==
    /\ PrimitiveFailed
    /\ InCategorical
    /\ error[2] = "chi2_contingency"
    /\ Len(Verdicts) = 1
    /\ calls = <<"proportions_ztest", "chi2_contingency">>

\* C10: the report's statement about the variances matches the branch: it
\* says the variances are equal iff the Levene p-value is strictly above
\* alpha.
C10_LeveneNarrationMatchesBranch ==
    InNumerical =>
      \A i \in DOMAIN out :
        out[i][1] = "levene" =>
          (out[i][4] = "variances are equal" <=> p_levene > alpha)

Next ==
    \/ CallNumerical
    \/ ShapiroA
    \/ ShapiroB
    \/ NormalityBranch
    \/ Levene
    \/ HomogeneityBranch
    \/ TtestEqualVar
    \/ TtestUnequalVar
    \/ MannWhitneyU
    \/ FinalVerdict
    \/ CallCategorical
    \/ ZtestBranch
    \/ ProportionsZtest
    \/ ZtestVerdict
    \/ ChiSquareBranch
    \/ Chi2Contingency
    \/ ChiSquareVerdict

Spec == Init /\ [][Next]_vars
====
